---- MODULE Spec2Model ----
(***************************************************************************)
(* A model of ldnsx (src/ldnsx.py): the resolver wrapper around the ldns   *)
(* python bindings.  Three parts of the resolver are modelled:             *)
(*   - the nameserver set kept inside the ldns resolver, which ldnsx       *)
(*     reaches only through push_nameserver / pop_nameserver;              *)
(*   - query, with its recursive retry;                                    *)
(*   - AXFR, a python generator over a zone-transfer session;              *)
(* and the accessors packet.flags and resource_record.ip.                  *)
(***************************************************************************)
EXTENDS Integers, Sequences, FiniteSets, TLC

VARIABLES
    ns,        \* the ldns resolver's nameserver array, ns[1] pushed first
    err,       \* exception raised by the last resolver call, or NoError
    ret,       \* list returned by the last call, if it was nameservers_ip
    prevRet,   \* list returned by the call before it, if nameservers_ip
    lastOp,    \* the last resolver call
    prevOp,    \* the call before it
    arg,       \* list given to construct / set_nameservers, kept while
               \* only nameservers_ip calls follow it; after an
               \* add_nameserver call, its target
    env,       \* what the hostname lookups of the last call answered
    added,     \* IP literals given to add_nameserver since the last drop
    pure,      \* TRUE while only IP literals were added since the last drop
    lists,     \* nameservers_ip calls since the last drop (saturating)
    called,    \* the arguments of the last query call, NoCall before it
    net,       \* net[i]: the i-th protocol-level query obtains a response
    result,    \* what the last query call returned or raised
    wire,      \* the protocol-level queries and sleeps of the last query call
    gen,       \* the AXFR generator: none, created, suspended, done or
               \* abandoned
    session,   \* the zone-transfer session inside the ldns resolver
    pulled,    \* the records the caller got from the generator so far
    axErr,     \* exception raised by the last AXFR call or pull
    hdr,       \* the header bits of the response a packet wraps
    flagsRet,  \* what packet.flags returned, NotCalledList before the call
    rec,       \* the record a resource_record wraps
    ipRet      \* what resource_record.ip returned, NotCalled before the call

nsVars ==
    <<ns, err, ret, prevRet, lastOp, prevOp, arg, env, added, pure, lists>>
qVars == <<called, net, result, wire>>
axVars == <<gen, session, pulled, axErr>>
valVars == <<hdr, flagsRet, rec, ipRet>>
vars == <<nsVars, qVars, axVars, valVars>>

(***************************************************************************)
(* Bounds of the model.                                                    *)
(***************************************************************************)
MaxNs == 3        \* nameservers held by the resolver
MaxList == 2      \* entries of a nameserver list given by the caller
MaxTries == 3     \* largest attempt budget given to query
MaxZone == 3      \* records of a zone

(***************************************************************************)
(* Generic helpers on sequences.                                           *)
(***************************************************************************)
RECURSIVE reverse(_)
reverse(s) ==
    IF s = <<>> THEN <<>> ELSE Append(reverse(Tail(s)), Head(s))

SeqsUpTo(S, n) == UNION { [1..k -> S] : k \in 0..n }

Distinct(s) == \A i, j \in 1..Len(s) : i # j => s[i] # s[j]

(***************************************************************************)
(* Addresses.  An rdf is the parsed (binary) address; its text form is     *)
(* what inet_ntop prints, which differs from a literal that is not written *)
(* in canonical form (an IPv6 literal with upper-case digits).             *)
(***************************************************************************)
IPv4Literals == {"192.168.1.1", "192.168.1.2"}
IPv6Literals == {"2001:DB8::1"}
Hostnames == {"f.root-servers.net", ""}
Targets == IPv4Literals \cup IPv6Literals \cup Hostnames

\* fam tells what the rdf holds: 4 an IPv4 address, 6 an IPv6 address,
\* 2 a 16-bit number, 7 a domain name
Rdf(fam, val) == [fam |-> fam, val |-> val]
None == Rdf(0, 0)
Rdfs == {Rdf(4, 1), Rdf(4, 2), Rdf(6, 1)}

NoError == "ok"
ResolveError == "Failed to resolve address"

\* isValidIP: 4 for an IPv4 literal, 6 for an IPv6 literal, else 0
isValidIP(ipaddr) ==
    IF ipaddr \in IPv4Literals THEN 4
    ELSE IF ipaddr \in IPv6Literals THEN 6
    ELSE 0

\* ldns.ldns_rdf_new_frm_str(type, str): parse the literal to its address
ldns_rdf_new_frm_str(fam, str) ==
    CASE str = "192.168.1.1" -> Rdf(fam, 1)
      [] str = "192.168.1.2" -> Rdf(fam, 2)
      [] str = "2001:DB8::1" -> Rdf(fam, 1)
      [] str = "2001:db8::1" -> Rdf(fam, 1)
      [] OTHER -> None

\* str(nm): the address printed in canonical form
rdf2str(nm) ==
    CASE nm = Rdf(4, 1) -> "192.168.1.1"
      [] nm = Rdf(4, 2) -> "192.168.1.2"
      [] nm = Rdf(6, 1) -> "2001:db8::1"
      [] nm = Rdf(2, 10) -> "10"
      [] nm = Rdf(7, 1) -> "mail.example.com."
      [] OTHER -> "None"

\* the text form nameservers_ip reports for an IP literal
Canon(lit) == rdf2str(ldns_rdf_new_frm_str(isValidIP(lit), lit))

CanonAll(lits) == [i \in 1..Len(lits) |-> Canon(lits[i])]

(***************************************************************************)
(* The ldns resolver's nameserver array: a stack.                          *)
(***************************************************************************)
push_nameserver(s, nm) == Append(s, nm)

\* pop_nameserver: removes and returns the last pushed, None when empty
pop_nameserver(s) ==
    IF s = <<>> THEN [nm |-> None, ns |-> s]
    ELSE [nm |-> s[Len(s)], ns |-> SubSeq(s, 1, Len(s) - 1)]

(***************************************************************************)
(* resolver.nameservers_ip                                                 *)
(***************************************************************************)
\* the while loop: pop until None, collecting nm_stack2
RECURSIVE PopLoop(_, _)
PopLoop(s, nm_stack2) ==
    LET p == pop_nameserver(s) IN
    IF p.nm = None THEN [ns |-> p.ns, nm_stack2 |-> nm_stack2]
    ELSE PopLoop(p.ns, Append(nm_stack2, p.nm))

\* the for loop: push every element of nm_stack2, in its order
RECURSIVE PushLoop(_, _)
PushLoop(s, nm_stack2) ==
    IF nm_stack2 = <<>> THEN s
    ELSE PushLoop(push_nameserver(s, Head(nm_stack2)), Tail(nm_stack2))

nameservers_ip_noreverse(s) ==
    LET popped == PopLoop(s, <<>>)
        nm_str_stack2 == [i \in 1..Len(popped.nm_stack2) |->
                             rdf2str(popped.nm_stack2[i])]
    IN  [ns |-> PushLoop(popped.ns, popped.nm_stack2),
         ret |-> nm_str_stack2]

nameservers_ip_nopush(s) ==
    LET popped == PopLoop(s, <<>>)
        nm_str_stack2 == [i \in 1..Len(popped.nm_stack2) |->
                             rdf2str(popped.nm_stack2[i])]
    IN  [ns |-> popped.ns,
         ret |-> reverse(nm_str_stack2)]

nameservers_ip(s) ==
    LET popped == PopLoop(s, <<>>)
        nm_str_stack2 == [i \in 1..Len(popped.nm_stack2) |->
                             rdf2str(popped.nm_stack2[i])]
    IN  [ns |-> PushLoop(popped.ns, popped.nm_stack2),
         ret |-> reverse(nm_str_stack2)]

(***************************************************************************)
(* resolver.add_nameserver                                                 *)
(* dns is the answer of the default resolver's get_addr_by_name for each   *)
(* hostname: a list of address rdfs, <<>> when the lookup gives nothing.   *)
(***************************************************************************)
LookupResults == {<<>>, <<Rdf(6, 1), Rdf(4, 1)>>}
DnsEnvs == [Hostnames -> LookupResults]

RECURSIVE PushRRs(_, _)
PushRRs(s, rrs) ==
    IF rrs = <<>> THEN s
    ELSE PushRRs(push_nameserver(s, Head(rrs)), Tail(rrs))

add_nameserver_lookup_reversed(s, target, dns) ==
    IF isValidIP(target) = 4
    THEN [ns |-> push_nameserver(s, ldns_rdf_new_frm_str(4, target)),
          err |-> NoError]
    ELSE IF isValidIP(target) = 6
    THEN [ns |-> push_nameserver(s, ldns_rdf_new_frm_str(6, target)),
          err |-> NoError]
    ELSE LET address == dns[target] IN
         IF address = <<>> THEN [ns |-> s, err |-> ResolveError]
         ELSE [ns |-> PushRRs(s, reverse(address)), err |-> NoError]

add_nameserver(s, target, dns) ==
    IF isValidIP(target) = 4
    THEN [ns |-> push_nameserver(s, ldns_rdf_new_frm_str(4, target)),
          err |-> NoError]
    ELSE IF isValidIP(target) = 6
    THEN [ns |-> push_nameserver(s, ldns_rdf_new_frm_str(6, target)),
          err |-> NoError]
    ELSE LET address == dns[target] IN
         IF address = <<>> THEN [ns |-> s, err |-> ResolveError]
         ELSE [ns |-> PushRRs(s, address), err |-> NoError]

(***************************************************************************)
(* resolver.drop_nameservers                                               *)
(***************************************************************************)
drop_nameservers_once(s) == pop_nameserver(s).ns

RECURSIVE drop_nameservers(_)
drop_nameservers(s) ==
    LET p == pop_nameserver(s) IN
    IF p.nm = None THEN p.ns ELSE drop_nameservers(p.ns)

(***************************************************************************)
(* resolver.set_nameservers                                                *)
(***************************************************************************)
RECURSIVE AddLoop_continue(_, _, _)
AddLoop_continue(s, nm_list, dns) ==
    IF nm_list = <<>> THEN [ns |-> s, err |-> NoError]
    ELSE LET r == add_nameserver(s, Head(nm_list), dns)
             rest == AddLoop_continue(r.ns, Tail(nm_list), dns)
         IN  IF r.err # NoError THEN [ns |-> rest.ns, err |-> r.err]
             ELSE rest

\* for nm in nm_list: self.add_nameserver(nm); an exception ends the loop
RECURSIVE AddLoop(_, _, _)
AddLoop(s, nm_list, dns) ==
    IF nm_list = <<>> THEN [ns |-> s, err |-> NoError]
    ELSE LET r == add_nameserver(s, Head(nm_list), dns) IN
         IF r.err # NoError THEN r
         ELSE AddLoop(r.ns, Tail(nm_list), dns)

set_nameservers_nodrop(s, nm_list, dns) == AddLoop(s, nm_list, dns)

set_nameservers(s, nm_list, dns) ==
    AddLoop(drop_nameservers(s), nm_list, dns)

(***************************************************************************)
(* resolver.__init__                                                       *)
(* A python string is a sequence of pieces: a piece is "," or a run of     *)
(* characters without a comma.                                             *)
(***************************************************************************)
Piece(str) == IF str = "" THEN <<>> ELSE <<str>>

RECURSIVE join(_)
join(list) ==
    IF list = <<>> THEN <<>>
    ELSE IF Len(list) = 1 THEN Piece(list[1])
    ELSE Piece(list[1]) \o <<",">> \o join(Tail(list))

Text(pieces) == IF pieces = <<>> THEN "" ELSE pieces[1]

\* ns.split(','): "" splits to [""]
RECURSIVE split(_)
split(str) ==
    IF \A i \in 1..Len(str) : str[i] # "," THEN <<Text(str)>>
    ELSE LET i == CHOOSE k \in 1..Len(str) :
                      /\ str[k] = ","
                      /\ \A j \in 1..(k - 1) : str[j] # ","
         IN  <<Text(SubSeq(str, 1, i - 1))>>
                 \o split(SubSeq(str, i + 1, Len(str)))

\* ldns_resolver.new_frm_file("/etc/resolv.conf"): the system's nameservers
Defaults == {<<>>, <<Rdf(4, 1)>>, <<Rdf(4, 2), Rdf(6, 1)>>}

\* __init__ with ns = None
init_default(defaults) == [ns |-> defaults, err |-> NoError]

\* __init__ with ns a string
init_string(defaults, str, dns) ==
    LET nm_list == reverse(split(str)) IN
    AddLoop(drop_nameservers(defaults), nm_list, dns)

(***************************************************************************)
(* The nameserver-set operations as actions.                               *)
(***************************************************************************)
IsIP(t) == isValidIP(t) # 0

AllIP(list) == \A i \in 1..Len(list) : IsIP(list[i])

IPsOf(list) ==
    IF AllIP(list) THEN list ELSE <<>>

\* the lookups a call with these targets can make: a hostname that is not
\* among them is not looked up
NoEnv == [h \in Hostnames |-> <<>>]
EnvOf(list, dns) ==
    [h \in Hostnames |->
        IF \E i \in 1..Len(list) : list[i] = h THEN dns[h] ELSE <<>>]

InitNS ==
    /\ ret = <<>>
    /\ prevRet = <<>>
    /\ lastOp = "construct"
    /\ prevOp = "none"
    /\ lists = 0
    /\ \E defaults \in Defaults :
        \/ /\ ns = init_default(defaults).ns
           /\ err = NoError
           /\ arg = <<>>
           /\ env = NoEnv
           /\ added = <<>>
           /\ pure = FALSE
        \/ \E list \in SeqsUpTo(Targets, MaxList), dns \in DnsEnvs :
             LET r == init_string(defaults, join(list), dns) IN
             /\ Len(r.ns) <= MaxNs
             /\ ns = r.ns
             /\ err = r.err
             /\ arg = split(join(list))
             /\ env = EnvOf(split(join(list)), dns)
             /\ added = reverse(IPsOf(split(join(list))))
             /\ pure = AllIP(split(join(list)))

\* a constructor that raised leaves no resolver to call
Alive == ~(lastOp = "construct" /\ err # NoError)

NameserversIp ==
    /\ Alive
    /\ LET r == nameservers_ip(ns) IN
        /\ ns' = r.ns
        /\ ret' = r.ret
    /\ prevRet' = ret
    /\ err' = NoError
    /\ lastOp' = "list"
    /\ prevOp' = lastOp
    /\ lists' = IF lists < 2 THEN lists + 1 ELSE lists
    /\ arg' = IF lastOp = "add" THEN <<>> ELSE arg
    /\ env' = NoEnv
    /\ UNCHANGED <<added, pure>>
    /\ UNCHANGED <<qVars, axVars, valVars>>

AddNameserver ==
    /\ Alive
    /\ \E target \in Targets, dns \in DnsEnvs :
         LET r == add_nameserver(ns, target, dns) IN
         /\ Len(r.ns) <= MaxNs
         /\ ns' = r.ns
         /\ err' = r.err
         /\ pure' = (pure /\ IsIP(target))
         /\ added' = IF pure /\ IsIP(target) THEN Append(added, target)
                     ELSE <<>>
         /\ arg' = <<target>>
         /\ env' = EnvOf(<<target>>, dns)
    /\ lastOp' = "add"
    /\ prevOp' = lastOp
    /\ ret' = <<>>
    /\ prevRet' = <<>>
    /\ UNCHANGED lists
    /\ UNCHANGED <<qVars, axVars, valVars>>

DropNameservers ==
    /\ Alive
    /\ ns' = drop_nameservers(ns)
    /\ err' = NoError
    /\ lastOp' = "drop"
    /\ prevOp' = lastOp
    /\ added' = <<>>
    /\ pure' = TRUE
    /\ lists' = 0
    /\ ret' = <<>>
    /\ prevRet' = <<>>
    /\ arg' = <<>>
    /\ env' = NoEnv
    /\ UNCHANGED <<qVars, axVars, valVars>>

SetNameservers ==
    /\ Alive
    /\ \E nm_list \in SeqsUpTo(Targets, MaxList), dns \in DnsEnvs :
         LET r == set_nameservers(ns, nm_list, dns) IN
         /\ Len(r.ns) <= MaxNs
         /\ ns' = r.ns
         /\ err' = r.err
         /\ arg' = nm_list
         /\ env' = EnvOf(nm_list, dns)
         /\ added' = IPsOf(nm_list)
         /\ pure' = AllIP(nm_list)
    /\ lastOp' = "set"
    /\ prevOp' = lastOp
    /\ lists' = 0
    /\ ret' = <<>>
    /\ prevRet' = <<>>
    /\ UNCHANGED <<qVars, axVars, valVars>>

NextNS ==
    \/ NameserversIp
    \/ AddNameserver
    \/ DropNameservers
    \/ SetNameservers

(***************************************************************************)
(* resolver.query                                                          *)
(***************************************************************************)
\* the keys of _rr_types
rr_types ==
    {"A", "A6", "AAAA", "AFSDB", "ANY", "APL", "ATMA", "AXFR", "CERT",
     "CNAME", "COUNT", "DHCID", "DLV", "DNAME", "DNSKEY", "DS", "EID",
     "FIRST", "GID", "GPOS", "HINFO", "IPSECKEY", "ISDN", "IXFR", "KEY",
     "KX", "LAST", "LOC", "MAILA", "MAILB", "MB", "MD", "MF", "MG", "MINFO",
     "MR", "MX", "NAPTR", "NIMLOC", "NS", "NSAP", "NSAP_PTR", "NSEC",
     "NSEC3", "NSEC3PARAMS", "NULL", "NXT", "OPT", "PTR", "PX", "RP",
     "RRSIG", "RT", "SIG", "SINK", "SOA", "SRV", "SSHFP", "TSIG", "TXT",
     "UID", "UINFO", "UNSPEC", "WKS", "X25"}

\* the rr_type arguments tried
RRTypeArgs == {"A", "MX", "NOTAREALTYPE"}

\* python ends a recursion deeper than its limit with a RuntimeError; the
\* limit is deep enough for every attempt budget 0..MaxTries
RecursionLimit == MaxTries + 2

\* how a call ends: the exception message or the response returned
Outcome(kind, exc, pkt) == [kind |-> kind, exc |-> exc, pkt |-> pkt]
NoCall == Outcome("none", "", 0)
ReturnNone == Outcome("return", "", 0)
Raise(exc) == Outcome("raise", exc, 0)
UnknownType == "Unknown DNS Record Type"

\* packet(pkt): the wrapper keeps the response it was given
packet(pkt) == Outcome("packet", "", pkt)

\* self._ldns_resolver.query: the i-th query sent gets response i or nothing
ldns_query(responses, i) == IF responses[i] THEN i ELSE 0

Count(s, e) == Cardinality({i \in 1..Len(s) : s[i] = e})

RECURSIVE query_nosleep(_, _, _, _)
query_nosleep(rr_type, tries, responses, w) ==
    IF Count(w, "query") >= RecursionLimit
    THEN [result |-> Raise("RuntimeError"), wire |-> w]
    ELSE IF rr_type \notin rr_types
    THEN [result |-> Raise(UnknownType), wire |-> w]
    ELSE IF tries = 0 THEN [result |-> ReturnNone, wire |-> w]
    ELSE LET sent == Append(w, "query")
             pkt == ldns_query(responses, Count(sent, "query"))
         IN  IF pkt = 0
             THEN query_nosleep(rr_type, tries - 1, responses, sent)
             ELSE [result |-> packet(pkt), wire |-> sent]

RECURSIVE query_sleepfirst(_, _, _, _)
query_sleepfirst(rr_type, tries, responses, w) ==
    IF Count(w, "query") >= RecursionLimit
    THEN [result |-> Raise("RuntimeError"), wire |-> w]
    ELSE IF rr_type \notin rr_types
    THEN [result |-> Raise(UnknownType), wire |-> w]
    ELSE IF tries = 0 THEN [result |-> ReturnNone, wire |-> w]
    ELSE LET sent == w \o <<"sleep", "query">>
             pkt == ldns_query(responses, Count(sent, "query"))
         IN  IF pkt = 0
             THEN query_sleepfirst(rr_type, tries - 1, responses, sent)
             ELSE [result |-> packet(pkt), wire |-> sent]

RECURSIVE query_latecheck(_, _, _, _)
query_latecheck(rr_type, tries, responses, w) ==
    IF Count(w, "query") >= RecursionLimit
    THEN [result |-> Raise("RuntimeError"), wire |-> w]
    ELSE IF tries = 0 THEN [result |-> ReturnNone, wire |-> w]
    ELSE IF rr_type \notin rr_types
    THEN [result |-> Raise(UnknownType), wire |-> w]
    ELSE LET sent == Append(w, "query")
             pkt == ldns_query(responses, Count(sent, "query"))
         IN  IF pkt = 0
             THEN query_latecheck(rr_type, tries - 1, responses,
                                  Append(sent, "sleep"))
             ELSE [result |-> packet(pkt), wire |-> sent]

\* query(name, rr_type, tries): w is the wire traffic of the calls above
\* this one, one frame of the recursion for each query already sent
RECURSIVE query(_, _, _, _)
query(rr_type, tries, responses, w) ==
    IF Count(w, "query") >= RecursionLimit
    THEN [result |-> Raise("RuntimeError"), wire |-> w]
    ELSE IF rr_type \notin rr_types
    THEN [result |-> Raise(UnknownType), wire |-> w]
    ELSE IF tries = 0 THEN [result |-> ReturnNone, wire |-> w]
    ELSE LET sent == Append(w, "query")
             pkt == ldns_query(responses, Count(sent, "query"))
         IN  IF pkt = 0
             THEN query(rr_type, tries - 1, responses, Append(sent, "sleep"))
             ELSE [result |-> packet(pkt), wire |-> sent]

InitQuery ==
    /\ called = NoCall
    /\ net = <<>>
    /\ result = NoCall
    /\ wire = <<>>

\* One call is followed in a behaviour: a call reads nothing that an
\* earlier call wrote.  A resolver without nameservers never obtains a
\* response.
Query ==
    /\ Alive
    /\ called = NoCall
    /\ \E rr_type \in RRTypeArgs, tries \in -1..MaxTries,
          responses \in [1..RecursionLimit -> BOOLEAN] :
         /\ ns = <<>> => \A i \in 1..RecursionLimit : ~responses[i]
         /\ LET r == query(rr_type, tries, responses, <<>>) IN
             /\ result' = r.result
             /\ wire' = r.wire
         /\ called' = [rr_type |-> rr_type, tries |-> tries]
         /\ net' = responses
    /\ UNCHANGED <<nsVars, axVars, valVars>>

NextQuery == Query

(***************************************************************************)
(* resolver.AXFR: a generator.  Calling AXFR runs none of its body; each   *)
(* pull runs it up to the next yield, its end or an exception.             *)
(***************************************************************************)
LDNS_STATUS_OK == "LDNS_STATUS_OK"

\* exceptions of the generator, with what they carry
Exc(name, info) == [exc |-> name, info |-> info]
NoExc == Exc("none", "")
StopIteration == Exc("StopIteration", "")
\* what python raises for the name status, which nothing defines
NameError == Exc("NameError", "status")
Statuses == {LDNS_STATUS_OK, "LDNS_STATUS_NETWORK_ERR"}
Records == {"SOA", "NS"}

\* the session: the status axfr_start reports, the zone the server holds,
\* the records axfr_next has delivered, the calls of axfr_next, and whether
\* the transfer's connection is held open
Session(status, zone) ==
    [status |-> status, zone |-> zone, started |-> FALSE,
     fetched |-> 0, nextCalls |-> 0, open |-> FALSE]
NoSession == Session(LDNS_STATUS_OK, <<>>)

\* resource_record(rr): the wrapper keeps the record it was given
resource_record(rr) == rr

\* self._ldns_resolver.axfr_start(): a start that succeeds holds the
\* connection to the server open
axfr_start(ses) ==
    [ses EXCEPT !.started = TRUE, !.open = (ses.status = LDNS_STATUS_OK)]

\* self._ldns_resolver.axfr_next(): the next record, None at the end; ldns
\* closes the connection when it has read the last record of the zone
axfr_next(ses) ==
    IF ses.fetched < Len(ses.zone)
    THEN [pres |-> ses.zone[ses.fetched + 1],
          session |-> [ses EXCEPT !.fetched = @ + 1, !.nextCalls = @ + 1,
                                  !.open = (ses.open /\
                                            ses.fetched + 1 < Len(ses.zone))]]
    ELSE [pres |-> "None",
          session |-> [ses EXCEPT !.nextCalls = @ + 1, !.open = FALSE]]

RECURSIVE FetchAll(_, _)
FetchAll(ses, buf) ==
    LET n == axfr_next(ses) IN
    IF n.pres = "None" THEN [session |-> n.session, buf |-> buf]
    ELSE FetchAll(n.session, Append(buf, n.pres))

\* one pull of the generator g = [gen, session, pulled]
AXFR_fetch(g) ==
    LET n == axfr_next(g.session) IN
    IF n.pres = "None"
    THEN [gen |-> "done", session |-> n.session, pulled |-> g.pulled,
          axErr |-> StopIteration]
    ELSE [gen |-> "suspended", session |-> n.session,
          pulled |-> Append(g.pulled, resource_record(n.pres)),
          axErr |-> NoExc]

AXFR_resume_eager(g) ==
    IF g.gen = "created"
    THEN LET started == axfr_start(g.session) IN
         IF started.status # LDNS_STATUS_OK
         THEN [gen |-> "done", session |-> started, pulled |-> g.pulled,
               axErr |-> NameError]
         ELSE LET all == FetchAll(started, <<>>) IN
              IF all.buf = <<>>
              THEN [gen |-> "done", session |-> all.session,
                    pulled |-> g.pulled, axErr |-> StopIteration]
              ELSE [gen |-> "suspended", session |-> all.session,
                    pulled |-> Append(g.pulled, Head(all.buf)),
                    axErr |-> NoExc]
    ELSE IF g.gen = "suspended"
    THEN IF Len(g.pulled) < Len(g.session.zone)
         THEN [g EXCEPT !.pulled = Append(@, g.session.zone[Len(@) + 1]),
                        !.axErr = NoExc]
         ELSE [g EXCEPT !.gen = "done", !.axErr = StopIteration]
    ELSE [g EXCEPT !.axErr = StopIteration]

AXFR_resume_restart(g) ==
    IF g.gen = "created"
    THEN LET started == axfr_start(g.session) IN
         IF started.status # LDNS_STATUS_OK
         THEN [gen |-> "done", session |-> started, pulled |-> g.pulled,
               axErr |-> NameError]
         ELSE AXFR_fetch([g EXCEPT !.session = started])
    ELSE IF g.gen = "suspended"
    THEN AXFR_fetch(g)
    ELSE AXFR_fetch([g EXCEPT !.session = axfr_start(Session(@.status,
                                                             @.zone))])

AXFR_resume(g) ==
    IF g.gen = "created"
    THEN \* from the top: axfr_start, and the raise names the undefined
         \* variable status, which python answers with a NameError
         LET started == axfr_start(g.session) IN
         IF started.status # LDNS_STATUS_OK
         THEN [gen |-> "done", session |-> started, pulled |-> g.pulled,
               axErr |-> NameError]
         ELSE AXFR_fetch([g EXCEPT !.session = started])
    ELSE IF g.gen = "suspended"
    THEN \* after the yield: axfr_next and the loop test
         AXFR_fetch(g)
    ELSE \* a generator that ended or raised yields nothing more
         [g EXCEPT !.axErr = StopIteration]

\* the generator is dropped: python closes it at the yield it waits at,
\* and the body has no finally clause to run
AXFR_close(g) == [g EXCEPT !.gen = "abandoned"]

InitAXFR ==
    /\ gen = "none"
    /\ session = NoSession
    /\ pulled = <<>>
    /\ axErr = NoExc

\* resolver.AXFR(name): python builds the generator object and returns
AXFRCall ==
    /\ Alive
    /\ \E status \in Statuses, zone \in SeqsUpTo(Records, MaxZone) :
         session' = Session(status, zone)
    /\ gen' = "created"
    /\ pulled' = <<>>
    /\ axErr' = NoExc
    /\ UNCHANGED <<nsVars, qVars, valVars>>

\* next(generator)
Pull ==
    /\ gen \in {"created", "suspended", "done"}
    /\ LET g == AXFR_resume([gen |-> gen, session |-> session,
                             pulled |-> pulled, axErr |-> axErr]) IN
        /\ gen' = g.gen
        /\ session' = g.session
        /\ pulled' = g.pulled
        /\ axErr' = g.axErr
    /\ UNCHANGED <<nsVars, qVars, valVars>>

\* the caller stops pulling and lets go of the generator
Abandon ==
    /\ gen \in {"created", "suspended", "done"}
    /\ LET g == AXFR_close([gen |-> gen, session |-> session,
                            pulled |-> pulled, axErr |-> axErr]) IN
        /\ gen' = g.gen
        /\ session' = g.session
        /\ pulled' = g.pulled
        /\ axErr' = g.axErr
    /\ UNCHANGED <<nsVars, qVars, valVars>>

NextAXFR ==
    \/ AXFRCall
    \/ Pull
    \/ Abandon

(***************************************************************************)
(* packet.flags and resource_record.ip.  A flag name is the sequence of    *)
(* the character codes of its letters: "AA" is <<65, 65>>.                 *)
(***************************************************************************)
AA == <<65, 65>>
AD == <<65, 68>>
CD == <<67, 68>>
QR == <<81, 82>>
RA == <<82, 65>>
RD == <<82, 68>>
TC == <<84, 67>>

HeaderBits == {"aa", "ad", "cd", "qr", "ra", "rd", "tc"}
Headers == [HeaderBits -> BOOLEAN]

\* if self._ldns_pkt.x(): ret.append(name)
AppendIf(list, bit, name) == IF bit THEN Append(list, name) ELSE list

flags_rd_before_ra(p) ==
    AppendIf(AppendIf(AppendIf(AppendIf(AppendIf(AppendIf(AppendIf(<<>>,
        p["aa"], AA), p["ad"], AD), p["cd"], CD), p["qr"], QR),
        p["rd"], RD), p["ra"], RA), p["tc"], TC)

\* packet.flags
flags(p) ==
    AppendIf(AppendIf(AppendIf(AppendIf(AppendIf(AppendIf(AppendIf(<<>>,
        p["aa"], AA), p["ad"], AD), p["cd"], CD), p["qr"], QR),
        p["ra"], RA), p["rd"], RD), p["tc"], TC)

\* a decoded record: its type string and its data fields
RR(type, rdfs) == [type |-> type, rdfs |-> rdfs]
RRs ==
    {RR("A", <<Rdf(4, 1)>>), RR("A", <<Rdf(4, 2)>>),
     RR("AAAA", <<Rdf(6, 1)>>),
     RR("MX", <<Rdf(2, 10), Rdf(7, 1)>>),
     RR("NS", <<Rdf(7, 1)>>), RR("CNAME", <<Rdf(7, 1)>>)}

\* resource_record.rr_type
get_type_str(r) == r.type

ip_any_type(r) == rdf2str(Head(r.rdfs))

\* resource_record.ip
ip(r) ==
    IF get_type_str(r) \in {"A", "AAAA"} THEN rdf2str(Head(r.rdfs)) ELSE ""

NotCalledList == <<<<>>>>
NotCalled == "(not called)"

\* a response without header bits and an address record, not yet read
InitValues ==
    /\ hdr = [b \in HeaderBits |-> FALSE]
    /\ flagsRet = NotCalledList
    /\ rec = RR("A", <<Rdf(4, 1)>>)
    /\ ipRet = NotCalled

Flags ==
    /\ flagsRet' = flags(hdr)
    /\ UNCHANGED <<hdr, rec, ipRet>>
    /\ UNCHANGED <<nsVars, qVars, axVars>>

Ip ==
    /\ ipRet' = ip(rec)
    /\ UNCHANGED <<hdr, flagsRet, rec>>
    /\ UNCHANGED <<nsVars, qVars, axVars>>

NextValues ==
    \/ Flags
    \/ Ip

(***************************************************************************)
(* Specifications: the resolver as a whole, and each of its parts with the *)
(* other parts left as constructed.                                        *)
(***************************************************************************)
Init == InitNS /\ InitQuery /\ InitAXFR /\ InitValues

Next == NextNS \/ NextQuery \/ NextAXFR \/ NextValues

Spec == Init /\ [][Next]_vars

SpecNS == Init /\ [][NextNS]_vars

SpecQuery == Init /\ [][NextQuery]_vars

SpecAXFR == Init /\ [][NextAXFR]_vars

\* the accessors applied to every decoded packet header and to every
\* record of RRs, beside a resolver built from an empty resolv.conf
InitAccessors ==
    /\ ns = init_default(<<>>).ns
    /\ err = NoError
    /\ ret = <<>>
    /\ prevRet = <<>>
    /\ lastOp = "construct"
    /\ prevOp = "none"
    /\ arg = <<>>
    /\ env = NoEnv
    /\ added = <<>>
    /\ pure = FALSE
    /\ lists = 0
    /\ InitQuery
    /\ InitAXFR
    /\ hdr \in Headers
    /\ flagsRet = NotCalledList
    /\ rec \in RRs
    /\ ipRet = NotCalled

SpecAccessors == InitAccessors /\ [][NextValues]_vars

(***************************************************************************)
(* Properties of the nameserver set (checked under SpecNS).                *)
(***************************************************************************)
\* the addresses the resolver holds after add_nameserver of each literal
ParseAll(lits) ==
    [i \in 1..Len(lits) |-> ldns_rdf_new_frm_str(isValidIP(lits[i]), lits[i])]

\* C1: with a nameserver set built by add_nameserver calls of distinct IP
\* literals, two nameservers_ip calls in a row return the same list.
C1_ListTwiceIdentical ==
    (lastOp = "list" /\ prevOp = "list" /\ pure /\ Distinct(added))
        => ret = prevRet

\* C2: starting from the empty set, after add_nameserver calls of N distinct
\* IP literals and no enumeration in between, the first nameservers_ip call
\* returns those N addresses in the order they were added.
C2_FirstListInInsertionOrder ==
    (lastOp = "list" /\ lists = 1 /\ pure /\ Distinct(added))
        => ret = CanonAll(added)

C2_Witness ==
    /\ lastOp = "list" /\ prevOp = "add" /\ lists = 1 /\ pure
    /\ Len(added) = MaxNs /\ Distinct(added)
    /\ ret = CanonAll(added)

\* C3: a resolver constructed with a comma-separated list of IP literals
\* returns, at the first nameservers_ip call, the entries in the order they
\* are written in the string.
C3_ConstructorKeepsListedOrder ==
    (lastOp = "list" /\ prevOp = "construct" /\ arg # <<>> /\ AllIP(arg))
        => ret = CanonAll(arg)

\* C4 as stated: set_nameservers(L) of IP literals followed by
\* nameservers_ip returns exactly L.
C4_SetThenListExactlyL ==
    (lastOp = "list" /\ prevOp = "set" /\ AllIP(arg)) => ret = arg

\* C4, amended: set_nameservers(L) of IP literals followed by
\* nameservers_ip returns, in the order of L, the canonical text form of
\* each address of L (L itself when every literal is written in canonical
\* form); after set_nameservers the resolver holds exactly what a drop
\* followed by add_nameserver of each entry in order leaves.
C4_SetThenListCanonical ==
    /\ (lastOp = "list" /\ prevOp = "set" /\ AllIP(arg))
           => /\ ret = CanonAll(arg)
              /\ (\A i \in 1..Len(arg) : Canon(arg[i]) = arg[i]) => ret = arg
    /\ (lastOp = "set" /\ AllIP(arg))
           => /\ err = NoError
              /\ ns = ParseAll(arg)

C4_Witness ==
    /\ lastOp = "list" /\ prevOp = "set"
    /\ Len(arg) = MaxList /\ AllIP(arg) /\ Distinct(arg)
    /\ ret = CanonAll(arg)
    /\ ret # arg

\* C5: drop_nameservers succeeds in every state and leaves no nameserver,
\* and a nameservers_ip call that follows it returns the empty list.
C5_DropThenListEmpty ==
    /\ lastOp = "drop" => (ns = <<>> /\ err = NoError)
    /\ (lastOp = "list" /\ prevOp = "drop") => (ret = <<>> /\ ns = <<>>)

C5_Witness ==
    lastOp = "list" /\ prevOp = "drop" /\ ret = <<>> /\ lists = 1

(***************************************************************************)
(* Properties of query (checked under SpecQuery).                          *)
(***************************************************************************)
Queries == Count(wire, "query")
Sleeps == Count(wire, "sleep")

\* the first attempt that obtains a response, 0 when none of 1..n does
FirstResponse(n) ==
    IF \E k \in 1..n : net[k]
    THEN CHOOSE k \in 1..n : net[k] /\ \A j \in 1..(k - 1) : ~net[j]
    ELSE 0

\* C6: query with an rr_type that is no key of _rr_types raises the
\* unknown-record-type error for every resolver and every tries, and sends
\* no query and sleeps not at all before it.
C6_UnknownTypeRejected ==
    (called # NoCall /\ called.rr_type \notin rr_types)
        => (result = Raise(UnknownType) /\ wire = <<>>)

C6_Witness ==
    /\ called # NoCall /\ called.rr_type \notin rr_types
    /\ called.tries = 0
    /\ ns # <<>>
    /\ result = Raise(UnknownType)

\* C7: when no attempt obtains a response, query with tries = N >= 1 sends
\* exactly N queries, sleeps between every two consecutive queries, and
\* returns None.
C7_RetryExhaustion ==
    (/\ called # NoCall
     /\ called.rr_type \in rr_types
     /\ called.tries >= 1
     /\ FirstResponse(called.tries) = 0)
        => /\ result = ReturnNone
           /\ Queries = called.tries
           /\ \A i, j \in 1..Len(wire) :
                (i < j /\ wire[i] = "query" /\ wire[j] = "query")
                    => \E k \in (i + 1)..(j - 1) : wire[k] = "sleep"

C7_Witness ==
    /\ called # NoCall
    /\ called.rr_type \in rr_types
    /\ called.tries = MaxTries
    /\ FirstResponse(called.tries) = 0
    /\ result = ReturnNone
    /\ Queries = MaxTries

\* C8: if attempt k (1 <= k <= tries) is the first to obtain a response,
\* query returns the packet of that response after exactly k queries and
\* k - 1 sleeps, and nothing follows the answered query.
C8_FirstSuccessWins ==
    (/\ called # NoCall
     /\ called.rr_type \in rr_types
     /\ called.tries >= 1
     /\ FirstResponse(called.tries) # 0)
        => LET k == FirstResponse(called.tries) IN
           /\ result = packet(k)
           /\ Queries = k
           /\ Sleeps = k - 1
           /\ wire[Len(wire)] = "query"

C8_Witness ==
    /\ called # NoCall
    /\ called.rr_type \in rr_types
    /\ called.tries = MaxTries
    /\ FirstResponse(called.tries) = 2
    /\ result = packet(2)
    /\ wire = <<"query", "sleep", "query">>

(***************************************************************************)
(* Properties of AXFR (checked under SpecAXFR).                            *)
(***************************************************************************)
\* the error the documentation of AXFR promises, carrying the status
AXFRStartFailed(status) == Exc("Starting AXFR failed", status)

\* C9: when the start of the transfer does not report success, the AXFR
\* call itself fails with the start-failed error carrying the status,
\* before any pull; no record is produced and axfr_next is never called.
C9_StartFailureAtCall ==
    (gen # "none" /\ session.status # LDNS_STATUS_OK)
        => /\ axErr = AXFRStartFailed(session.status)
           /\ pulled = <<>>
           /\ session.nextCalls = 0

\* C10: at every point of a transfer the records fetched from the session
\* are as many as the records the caller has pulled, so the records after
\* the ones consumed have not been fetched.
C10_AXFRLazy ==
    /\ session.fetched = Len(pulled)
    /\ \A i \in 1..Len(pulled) : pulled[i] = resource_record(session.zone[i])

C10_Witness ==
    /\ gen = "suspended"
    /\ Len(pulled) = 2
    /\ Len(session.zone) = MaxZone
    /\ session.fetched = 2

\* the records of the zone as the generator wraps them
Wrapped(zone) == [i \in 1..Len(zone) |-> resource_record(zone[i])]

\* C11: a transfer that started over a zone of n records yields exactly
\* those n records in the session's order and ends without error the first
\* time the session reports no further record; once ended, further pulls
\* yield nothing and ask the session for nothing.
C11_AXFRYieldsZoneThenEnds ==
    /\ (gen \in {"suspended", "done"} /\ session.status = LDNS_STATUS_OK)
           => /\ Len(pulled) <= Len(session.zone)
              /\ pulled = SubSeq(Wrapped(session.zone), 1, Len(pulled))
    /\ (gen = "done" /\ session.status = LDNS_STATUS_OK)
           => /\ pulled = Wrapped(session.zone)
              /\ axErr = StopIteration
              /\ session.nextCalls = Len(session.zone) + 1

C11_Witness ==
    /\ gen = "done"
    /\ session.status = LDNS_STATUS_OK
    /\ Len(session.zone) = MaxZone
    /\ pulled = Wrapped(session.zone)
    /\ axErr = StopIteration

\* C12: the session is released whether the sequence is consumed to its
\* end or abandoned early: once the caller has let go of the generator of
\* a started transfer, the session's connection is no longer held open.
C12_SessionReleased ==
    /\ gen = "done" => ~session.open
    /\ gen = "abandoned" => ~session.open

(***************************************************************************)
(* Further properties of the nameserver set (checked under SpecNS).        *)
(***************************************************************************)
\* C13: add_nameserver of a target that is no IP literal looks the name up
\* and appends each address found, in the lookup's order, after the
\* nameservers already held; a lookup without addresses raises the
\* resolve error and leaves the nameserver set as it was.
C13_HostnameAdd ==
    [][(lastOp' = "add" /\ ~IsIP(arg'[1]))
          => LET address == env'[arg'[1]] IN
             IF address = <<>>
             THEN err' = ResolveError /\ ns' = ns
             ELSE err' = NoError /\ ns' = ns \o address]_vars

C13_Witness ==
    /\ lastOp = "add"
    /\ ~IsIP(arg[1])
    /\ Len(env[arg[1]]) = 2
    /\ err = NoError
    /\ Len(ns) = MaxNs
    /\ SubSeq(ns, MaxNs - 1, MaxNs) = env[arg[1]]

\* C14: constructing a resolver with the empty string succeeds and gives a
\* resolver without nameservers.
C14_EmptyStringGivesEmptyResolver ==
    (lastOp = "construct" /\ arg = <<"">>) => (err = NoError /\ ns = <<>>)

\* C17: after any interleaving of nameservers_ip calls with add_nameserver
\* calls of IP literals the resolver still holds its nameservers in the
\* order they were added, and nameservers_ip returns them in that order.
C17_OrderStableUnderEnumeration ==
    pure => /\ ns = ParseAll(added)
            /\ lastOp = "list" => ret = CanonAll(added)

SameBag(s, t) ==
    /\ Len(s) = Len(t)
    /\ \A i \in 1..Len(s) : Count(s, s[i]) = Count(t, s[i])

\* C18: nameservers_ip neither loses nor duplicates a nameserver: the
\* resolver holds the same multiset after the call as before it, and the
\* list returned is a permutation of it.
C18_EnumerationKeepsMultiset ==
    [][lastOp' = "list"
          => /\ SameBag(ns', ns)
             /\ SameBag(ret', [i \in 1..Len(ns) |-> rdf2str(ns[i])])]_vars

C18_Witness ==
    /\ lastOp = "list" /\ prevOp = "list"
    /\ Len(ns) = MaxNs
    /\ \E i, j \in 1..Len(ns) : i # j /\ ns[i] = ns[j]
    /\ ret # prevRet

\* the endpoints add_nameserver appends for a list of targets
RECURSIVE Endpoints(_, _)
Endpoints(list, dns) ==
    IF list = <<>> THEN <<>>
    ELSE (IF IsIP(Head(list)) THEN ParseAll(<<Head(list)>>)
          ELSE dns[Head(list)]) \o Endpoints(Tail(list), dns)

\* C20: when set_nameservers(L) fails at an entry i that is a hostname
\* without addresses, the error reaches the caller and the resolver holds
\* exactly the endpoints of the entries before i, in order: the earlier
\* nameservers are gone and no entry after i is added.
C20_SetFailureKeepsPrefix ==
    (lastOp = "set" /\ err # NoError)
        => /\ err = ResolveError
           /\ \E i \in 1..Len(arg) :
                /\ ~IsIP(arg[i]) /\ env[arg[i]] = <<>>
                /\ \A j \in 1..(i - 1) : IsIP(arg[j]) \/ env[arg[j]] # <<>>
                /\ ns = Endpoints(SubSeq(arg, 1, i - 1), env)

C20_Witness ==
    /\ lastOp = "set" /\ err = ResolveError
    /\ Len(arg) = MaxList
    /\ IsIP(arg[1])
    /\ ~IsIP(arg[MaxList])
    /\ ns = ParseAll(<<arg[1]>>)

(***************************************************************************)
(* A further property of query (checked under SpecQuery).                  *)
(***************************************************************************)
\* C19: with a nameserver that never responds, query returns None for
\* every integer tries (zero, positive or negative) after at most
\* max(tries, 0) queries, and with tries = 0 without sending any query.
C19_QueryEndsForEveryTries ==
    (/\ called # NoCall
     /\ called.rr_type \in rr_types
     /\ \A i \in DOMAIN net : ~net[i])
        => /\ result = ReturnNone
           /\ Queries <= (IF called.tries > 0 THEN called.tries ELSE 0)
           /\ called.tries = 0 => wire = <<>>

(***************************************************************************)
(* Properties of the accessors (checked under SpecAccessors).              *)
(***************************************************************************)
\* the header bit each flag name stands for
BitOf(name) ==
    CASE name = AA -> "aa" [] name = AD -> "ad" [] name = CD -> "cd"
      [] name = QR -> "qr" [] name = RA -> "ra" [] name = RD -> "rd"
      [] name = TC -> "tc"
FlagNames == {AA, AD, CD, QR, RA, RD, TC}

\* alphabetical order of two names, by their character codes
RECURSIVE LexLess(_, _)
LexLess(a, b) ==
    IF b = <<>> THEN FALSE
    ELSE IF a = <<>> THEN TRUE
    ELSE IF Head(a) # Head(b) THEN Head(a) < Head(b)
    ELSE LexLess(Tail(a), Tail(b))

\* C15: for each of the 2^7 settings of the header bits, flags returns a
\* flag's name iff its bit is set, no name twice, in alphabetical order.
C15_FlagsExactSortedNoDuplicates ==
    flagsRet # NotCalledList
        => /\ \A i \in 1..Len(flagsRet) : flagsRet[i] \in FlagNames
           /\ \A name \in FlagNames :
                (\E i \in 1..Len(flagsRet) : flagsRet[i] = name)
                    <=> hdr[BitOf(name)]
           /\ Distinct(flagsRet)
           /\ \A i, j \in 1..Len(flagsRet) :
                i < j => LexLess(flagsRet[i], flagsRet[j])

C15_Witness ==
    /\ hdr = [b \in HeaderBits |-> b \in {"aa", "rd"}]
    /\ flagsRet = <<AA, RD>>

\* C16: ip returns the first data field of a record of type A or AAAA and
\* the empty string for a record of any other type.
C16_IpOfAddressRecordsOnly ==
    ipRet # NotCalled
        => IF rec.type \in {"A", "AAAA"}
           THEN ipRet = rdf2str(rec.rdfs[1])
           ELSE ipRet = ""

C16_Witness ==
    /\ rec.type = "MX"
    /\ ipRet = ""
    /\ rdf2str(rec.rdfs[1]) # ""

====
